---- MODULE Spec2Model ----
(***************************************************************************)
(* devvault: the entry execution engine (executor.py, utils.py) and the    *)
(* entry store reached through the CLI (cli.py, db.py, models.py).         *)
(*                                                                         *)
(* Text is modelled as a sequence of one-character strings, so that the    *)
(* regular-expression scan, str.replace and str.lower are computed on the  *)
(* characters as Python computes them.                                     *)
(***************************************************************************)
EXTENDS Integers, Sequences, FiniteSets, TLC

VARIABLES
    pc,        \* position of the executor: "idle", "playbook", "done"
    result,    \* value returned by execute_entry / execute_playbook (when pc = "done")
    calls,     \* the execute_entry calls the running process has made so far, each
               \* with its arguments, its return value and the effects it had
    playbook,  \* the entries list handed to execute_playbook
    step,      \* execute_playbook's loop index i (1-based)
    out,       \* messages execute_playbook itself has shown, as tags
    vault,     \* whether data/vault.json exists
    store,     \* the documents of the vault, in TinyDB's document order
    clock,     \* the wall clock: the last value datetime.utcnow() returned
    issued,    \* how many ids generate_id has returned
    editing,   \* the `edit` commands waiting for their editor to exit, each with
               \* the identifier it was given and the entry it read
    exported,  \* the file the `export` command that just ran wrote, for the command
               \* that follows it; <<>> if there is none
    last       \* what the CLI command that just ran reported and did: [cmd, arg, msg,
               \* raised, typed, handles, read, wrote, replaced]; cmd is "none" once
               \* its process has exited

execVars == <<pc, result, calls, playbook, step, out>>

storeVars == <<vault, store, clock, issued, editing, exported, last>>

vars ==
    <<pc, result, calls, playbook, step, out, vault, store, clock, issued, editing, exported,
      last>>

---------------------------------------------------------------------------
(* Bounds of the model. *)

\* longest playbook handed to execute_playbook
MaxSteps == 3

\* how many times the store commands read the wall clock
MaxClock == 3

---------------------------------------------------------------------------
(* Text. *)

\* characters matched by the regular expression class \w
WordChars == {"A", "B", "l", "s", "u", "v", "y", "e", "n", "Y", "E", "S", "1"}

\* variant: the blank counts as a character of a name
IsWord_blank(c) == c \in WordChars \cup {" "}

IsWord(c) == c \in WordChars

\* str.lower on one character
LowerChar(c) ==
    CASE c = "Y" -> "y"
      [] c = "E" -> "e"
      [] c = "S" -> "s"
      [] c = "A" -> "a"
      [] c = "B" -> "b"
      [] OTHER -> c

\* str.lower
Lower(s) == [i \in 1..Len(s) |-> LowerChar(s[i])]

\* the f-string f"{{{{{var}}}}}": the placeholder text of a variable name
Placeholder(var) == <<"{", "{">> \o var \o <<"}", "}">>

\* end of the longest run of \w characters that starts at k (k-1 when empty)
RECURSIVE WordRunEnd(_, _)
WordRunEnd(s, k) ==
    IF k <= Len(s) /\ IsWord(s[k]) THEN WordRunEnd(s, k + 1) ELSE k - 1

\* index of the last character of a match of \{\{(\w+)\}\} starting at i, or 0
MatchEnd(s, i) ==
    IF i + 1 <= Len(s) /\ s[i] = "{" /\ s[i + 1] = "{"
    THEN LET j == WordRunEnd(s, i + 2)
         IN  IF j >= i + 2 /\ j + 2 <= Len(s) /\ s[j + 1] = "}" /\ s[j + 2] = "}"
             THEN j + 2
             ELSE 0
    ELSE 0

\* re.findall scanning from position i: leftmost matches, not overlapping
RECURSIVE FindAllFrom(_, _)
FindAllFrom(s, i) ==
    IF i > Len(s) THEN <<>>
    ELSE LET e == MatchEnd(s, i)
         IN  IF e > 0
             THEN <<SubSeq(s, i + 2, e - 2)>> \o FindAllFrom(s, e + 1)
             ELSE FindAllFrom(s, i + 1)

extract_variables(content) == FindAllFrom(content, 1)

\* str.replace(old, new) from position i: leftmost occurrences, not overlapping,
\* the inserted text is not scanned again
RECURSIVE ReplaceFrom(_, _, _, _)
ReplaceFrom(s, i, old, new) ==
    IF i > Len(s) THEN <<>>
    ELSE IF i + Len(old) - 1 <= Len(s) /\ SubSeq(s, i, i + Len(old) - 1) = old
         THEN new \o ReplaceFrom(s, i + Len(old), old, new)
         ELSE <<s[i]>> \o ReplaceFrom(s, i + 1, old, new)

Replace(s, old, new) == ReplaceFrom(s, 1, old, new)

(* A Python dict: a sequence of [key, value] in insertion order, keys distinct. *)
DictKeys(d) == {d[i].key : i \in 1..Len(d)}

DictSet(d, k, v) ==
    IF k \in DictKeys(d)
    THEN [i \in 1..Len(d) |-> IF d[i].key = k THEN [key |-> k, value |-> v] ELSE d[i]]
    ELSE Append(d, [key |-> k, value |-> v])

\* substitute_variables: one str.replace per item of the dict, in its order
RECURSIVE SubstituteFrom(_, _, _)
SubstituteFrom(text, variables, i) ==
    IF i > Len(variables) THEN text
    ELSE SubstituteFrom(Replace(text, Placeholder(variables[i].key), variables[i].value),
                        variables, i + 1)

substitute_variables(content, variables) == SubstituteFrom(content, variables, 1)

\* prompt_for_variables: one console.input per element of the list; answers[i]
\* is what the user types at the i-th prompt
RECURSIVE PromptFrom(_, _, _, _)
PromptFrom(variables, answers, i, values) ==
    IF i > Len(variables) THEN values
    ELSE PromptFrom(variables, answers, i + 1, DictSet(values, variables[i], answers[i]))

prompt_for_variables(variables, answers) == PromptFrom(variables, answers, 1, <<>>)

\* the console.input calls prompt_for_variables makes
PromptInputs(variables, answers) ==
    [i \in 1..Len(variables) |-> [kind |-> "var", name |-> variables[i], answer |-> answers[i]]]

---------------------------------------------------------------------------
(* executor.py *)

\* json.loads on the text of this model's alphabet: the kind of value it
\* returns, or "error" for json.JSONDecodeError.  Over these characters the
\* JSON documents are {} , null and the numbers 1.. with an optional exponent.
IsDigits(s) == Len(s) >= 1 /\ \A i \in 1..Len(s) : s[i] = "1"

IsJsonNumber(s) ==
    \/ IsDigits(s)
    \/ \E k \in 2..(Len(s) - 1) :
          /\ s[k] \in {"e", "E"}
          /\ IsDigits(SubSeq(s, 1, k - 1))
          /\ IsDigits(SubSeq(s, k + 1, Len(s)))

json_loads(s) ==
    IF s = <<"{", "}">> THEN "dict"
    ELSE IF IsJsonNumber(s) \/ s = <<"n", "u", "l", "l">> THEN "scalar"
    ELSE "error"

\* execute_command: subprocess.run of the content; returncode is the exit
\* code the shell reports
execute_command(content, returncode) == [cmd |-> content, returncode |-> returncode]

\* str.upper on the HTTP method
UpperMethod(m) ==
    CASE m = "get" -> "GET"
      [] m = "post" -> "POST"
      [] OTHER -> m

\* variant: only the 2xx codes count as ok
ResponseOk_2xx(status_code) == 200 <= status_code /\ status_code < 300

\* requests.Response.ok: raise_for_status raises for 400 <= status < 600
ResponseOk(status_code) == ~(400 <= status_code /\ status_code < 600)

\* `if response:` -- requests.Response.__bool__ returns ok
ResponseTruthy(response) == response.ok

\* variant: the url is not looked at before the request
UrlMissing_never(url) == FALSE

\* `if not url:`
UrlMissing(url) == url = <<>>

\* execute_api.  net is what the network does with the request:
\* [kind |-> "response", status |-> n] or [kind |-> "error", status |-> 0]
\* (a requests.RequestException).  response is <<>> for None.
execute_api(entry, net) ==
    LET metadata == entry.metadata
        method   == UpperMethod(metadata.method)
        url      == metadata.url
        content  == entry.content
        parsed   == IF content # <<>> THEN json_loads(content) ELSE "none"
        \* body = json.loads(content), or content itself on JSONDecodeError
        isDict   == parsed = "dict"
        isStr    == parsed = "error"
        request  == [method |-> method, url |-> url,
                     json |-> IF isDict THEN <<content>> ELSE <<>>,
                     data |-> IF isStr THEN <<content>> ELSE <<>>,
                     outcome |-> net]
    IN  IF UrlMissing(url)
        THEN [response |-> <<>>, requests |-> <<>>, out |-> <<"Error: No URL specified">>]
        ELSE IF net.kind = "response"
             THEN [response |-> <<[status_code |-> net.status, ok |-> ResponseOk(net.status)]>>,
                   requests |-> <<request>>, out |-> <<>>]
             ELSE [response |-> <<>>, requests |-> <<request>>,
                   out |-> <<"Error: Request failed">>]

\* variant: an empty answer counts as yes
Declined_default_yes(response) == Lower(response) \notin {<<"y">>, <<"y", "e", "s">>, <<>>}

\* `response.lower() not in ("y", "yes")`
Declined(response) == Lower(response) \notin {<<"y">>, <<"y", "e", "s">>}

\* variant: success whenever the process ran
CommandSuccess_ran(returncode) == returncode >= 0

\* `return returncode == 0`
CommandSuccess(returncode) == returncode = 0

\* the command branch of execute_entry (lines 97-117)
run_command(entry, content, confirm, env) ==
    LET ask == <<[kind |-> "confirm", name |-> <<>>, answer |-> env.answer]>>
    IN  IF confirm /\ Declined(env.answer)
        THEN [ret |-> FALSE, entry |-> entry, inputs |-> ask, spawned |-> <<>>,
              requests |-> <<>>, out |-> <<"Command", "Cancelled">>]
        ELSE LET run == execute_command(content, env.returncode)
             IN  [ret |-> CommandSuccess(run.returncode), entry |-> entry,
                  inputs |-> IF confirm THEN ask ELSE <<>>,
                  spawned |-> <<run>>, requests |-> <<>>,
                  out |-> <<"Command", "Output",
                            IF run.returncode = 0 THEN "Command completed"
                                                  ELSE "Error: Command failed">>]

\* the api branch of execute_entry (lines 119-143)
run_api(entry, content, confirm, env) ==
    LET ask  == <<[kind |-> "confirm", name |-> <<>>, answer |-> env.answer]>>
        head == <<"API Request">> \o (IF content # <<>> THEN <<"Body">> ELSE <<>>)
    IN  IF confirm /\ Declined(env.answer)
        THEN [ret |-> FALSE, entry |-> entry, inputs |-> ask, spawned |-> <<>>,
              requests |-> <<>>, out |-> head \o <<"Cancelled">>]
        ELSE LET api == execute_api(entry, env.net)
                 got == api.response # <<>> /\ ResponseTruthy(api.response[1])
             IN  [ret |-> IF got THEN api.response[1].ok ELSE FALSE,
                  entry |-> entry,
                  inputs |-> IF confirm THEN ask ELSE <<>>,
                  spawned |-> <<>>, requests |-> api.requests,
                  out |-> head \o api.out
                          \o (IF got THEN <<"Status", "Response">> ELSE <<>>)]

\* variant: the unimplemented playbook branch reports failure
display_entry_playbook_fails(entry, content) ==
    [ret |-> entry.type # "playbook", entry |-> entry, inputs |-> <<>>, spawned |-> <<>>,
     requests |-> <<>>, out |-> <<"Content">>]

\* the snippet, note, file and playbook branches (lines 145-166)
display_entry(entry, content) ==
    [ret |-> TRUE, entry |-> entry, inputs |-> <<>>, spawned |-> <<>>, requests |-> <<>>,
     out |-> CASE entry.type = "snippet"  -> <<"Snippet content", "Snippet displayed">>
               [] entry.type = "note"     -> <<"Note">>
               [] entry.type = "file"     -> <<"File content">>
               [] entry.type = "playbook" -> <<"Playbook execution not yet implemented", "Content">>]

\* variant: an unknown type is displayed like a note
unknown_entry_displayed(entry) ==
    [ret |-> TRUE, entry |-> entry, inputs |-> <<>>, spawned |-> <<>>, requests |-> <<>>,
     out |-> <<"Note">>]

\* the else branch (lines 168-170)
unknown_entry(entry) ==
    [ret |-> FALSE, entry |-> entry, inputs |-> <<>>, spawned |-> <<>>, requests |-> <<>>,
     out |-> <<"Error: Unknown entry type">>]

\* execute_entry.  env is what the user and the outside world answer during
\* the call: answers (typed at the variable prompts, in order), answer (typed
\* at the Execute? prompt), returncode (of the subprocess), net (of the request).
execute_entry(entry, confirm, env) ==
    LET entry_type == entry.type
        content0   == entry.content
        variables  == extract_variables(content0)
        prompted   == variables # <<>>
        values     == IF prompted THEN prompt_for_variables(variables, env.answers) ELSE <<>>
        content    == IF prompted THEN substitute_variables(content0, values) ELSE content0
        url        == entry.metadata.url
        url_vars   == extract_variables(url)
        entry1     == IF prompted /\ entry_type = "api" /\ url_vars # <<>>
                      THEN [entry EXCEPT !.metadata.url = substitute_variables(url, values)]
                      ELSE entry
        pre        == IF prompted THEN PromptInputs(variables, env.answers) ELSE <<>>
        preOut     == IF prompted THEN <<"This entry requires variables">> ELSE <<>>
        r == CASE entry_type = "command" -> run_command(entry1, content, confirm, env)
               [] entry_type = "api" -> run_api(entry1, content, confirm, env)
               [] entry_type \in {"snippet", "note", "file", "playbook"} ->
                      display_entry(entry1, content)
               [] OTHER -> unknown_entry(entry1)
    IN  [r EXCEPT !.inputs = pre \o @, !.out = preOut \o @]

---------------------------------------------------------------------------
(* The entries and the answers of the outside world the executor is run on. *)

\* models.ENTRY_TYPES
ENTRY_TYPES == {"command", "api", "snippet", "file", "playbook", "note"}

PH_A == Placeholder(<<"A">>)
PH_B == Placeholder(<<"B">>)

\* contents: empty, plain, one placeholder, a repeated one, two names,
\* a JSON object, a JSON scalar, and the forms that are no placeholder:
\* {{ A }}, {A}, {{A} and, around a placeholder, {A}{{{B}}}
Contents ==
    {<<>>, <<"l", "s">>, PH_A, PH_A \o PH_A, PH_A \o PH_B, <<"{", "}">>, <<"1">>,
     <<"{", "{", " ", "A", " ", "}", "}">>, <<"{", "A", "}">>, <<"{", "{", "A", "}">>,
     <<"{", "A", "}", "{">> \o PH_B \o <<"}">>}

\* urls: missing, plain, with a name of the content, with a name of its own
Urls == {<<>>, <<"u">>, <<"u">> \o PH_A, <<"u">> \o PH_B}

MakeEntry(type, content, url) ==
    [type |-> type, content |-> content, metadata |-> [method |-> "GET", url |-> url]]

\* the records execute_entry is called on; only api entries carry a url
Entries ==
    {MakeEntry(t, c, <<>>) : t \in (ENTRY_TYPES \ {"api"}) \cup {"unknown"}, c \in Contents}
    \cup {MakeEntry("api", c, u) : c \in Contents, u \in Urls}

\* the records a playbook is made of
StepEntries ==
    {MakeEntry("command", <<"l", "s">>, <<>>), MakeEntry("command", PH_A, <<>>),
     MakeEntry("api", <<>>, <<"u">>), MakeEntry("note", <<"l", "s">>, <<>>),
     MakeEntry("unknown", <<>>, <<>>)}

\* what a user types at a variable prompt
Values == {<<"v">>, <<>>, PH_B}

\* what a user types at the Execute? prompt
Answers ==
    {<<"y">>, <<"Y">>, <<"y", "e", "s">>, <<"Y", "E", "S">>, <<"Y", "e", "s">>,
     <<"n">>, <<>>, <<"y", "e">>, <<" ", "y">>}

ReturnCodes == {0, 1, 127}

StatusCodes == {101, 200, 204, 304, 404, 500, 600}

Nets == {[kind |-> "response", status |-> c] : c \in StatusCodes}
        \cup {[kind |-> "error", status |-> 0]}

\* the answers that can matter to a call: an input the entry's type never
\* reads is fixed to one value
Envs(entry, confirm) ==
    {[answers |-> a, answer |-> w, returncode |-> rc, net |-> n] :
        a \in [1..Len(extract_variables(entry.content)) -> Values],
        w \in IF confirm THEN Answers ELSE {<<>>},
        rc \in IF entry.type = "command" THEN ReturnCodes ELSE {0},
        n \in IF entry.type = "api" THEN Nets ELSE {[kind |-> "error", status |-> 0]}}

CallRecord(i, entry, confirm, r) ==
    [step |-> i, entry |-> entry, confirm |-> confirm, ret |-> r.ret, after |-> r.entry,
     inputs |-> r.inputs, spawned |-> r.spawned, requests |-> r.requests, out |-> r.out]

---------------------------------------------------------------------------
(* The executor as a state machine. *)

ExecInit ==
    /\ pc = "idle"
    /\ result = FALSE
    /\ calls = <<>>
    /\ playbook = <<>>
    /\ step = 0
    /\ out = <<>>

\* no vault has been initialized in the directory
StoreInit ==
    /\ vault = FALSE
    /\ store = <<>>
    /\ clock = 0
    /\ issued = 0
    /\ editing = <<>>
    /\ exported = <<>>
    /\ last = [cmd |-> "none", arg |-> "", msg |-> "", raised |-> FALSE, typed |-> <<>>,
               handles |-> <<>>, read |-> <<>>, wrote |-> <<>>, replaced |-> {}]

Init == ExecInit /\ StoreInit

\* one call of execute_entry on a record, as cli.run makes it
Run ==
    /\ pc = "idle"
    /\ \E entry \in Entries, confirm \in BOOLEAN :
         \E env \in Envs(entry, confirm) :
            LET r == execute_entry(entry, confirm, env)
            IN  /\ calls' = Append(calls, CallRecord(0, entry, confirm, r))
                /\ result' = r.ret
    /\ pc' = "done"
    /\ UNCHANGED <<playbook, step, out>>
    /\ UNCHANGED storeVars

\* execute_playbook is entered with a list of entries
StartPlaybook ==
    /\ pc = "idle"
    /\ \E n \in 0..MaxSteps : \E entries \in [1..n -> StepEntries] :
         playbook' = entries
    /\ step' = 1
    /\ pc' = "playbook"
    /\ UNCHANGED <<result, calls, out>>
    /\ UNCHANGED storeVars

\* variant: the steps are run with the default confirm=True
PlaybookConfirm_default == TRUE

\* `execute_entry(entry, confirm=False)`
PlaybookConfirm == FALSE

\* variant: the loop goes on after a failed step
PlaybookStops_never(success) == FALSE

\* `if not success:`
PlaybookStops(success) == ~success

\* one iteration of execute_playbook's loop
PlaybookStep ==
    /\ pc = "playbook"
    /\ step <= Len(playbook)
    /\ \E env \in Envs(playbook[step], PlaybookConfirm) :
         LET r == execute_entry(playbook[step], PlaybookConfirm, env)
             shown == Append(out, [msg |-> "Step", step |-> step])
         IN  /\ calls' = Append(calls, CallRecord(step, playbook[step], PlaybookConfirm, r))
             /\ playbook' = [playbook EXCEPT ![step] = r.entry]
             /\ IF PlaybookStops(r.ret)
                THEN /\ out' = Append(shown, [msg |-> "Error: Playbook failed at step", step |-> step])
                     /\ result' = FALSE
                     /\ pc' = "done"
                     /\ step' = step
                ELSE /\ out' = shown
                     /\ step' = step + 1
                     /\ UNCHANGED <<result, pc>>
    /\ UNCHANGED storeVars

\* the loop is exhausted
PlaybookFinish ==
    /\ pc = "playbook"
    /\ step > Len(playbook)
    /\ out' = Append(out, [msg |-> "Playbook completed successfully", step |-> 0])
    /\ result' = TRUE
    /\ pc' = "done"
    /\ UNCHANGED <<calls, playbook, step>>
    /\ UNCHANGED storeVars

Next == Run \/ StartPlaybook \/ PlaybookStep \/ PlaybookFinish

Spec == Init /\ [][Next]_vars

---------------------------------------------------------------------------
(* models.py *)

\* generate_id: the n-th value it returns; the values are taken to be fresh
IdText(n) ==
    CASE n = 1 -> "i1" [] n = 2 -> "i2" [] n = 3 -> "i3" [] n = 4 -> "i4"
      [] n = 5 -> "i5" [] n = 6 -> "i6" [] n = 7 -> "i7" [] OTHER -> "i8"

generate_id(n) == IdText(n + 1)

\* a Python dict with string keys is a record; dict.update(other)
Merge(doc, updates) ==
    [k \in DOMAIN doc \cup DOMAIN updates |->
        IF k \in DOMAIN updates THEN updates[k] ELSE doc[k]]

EmptyDict == <<>>

\* create_entry.  ids is the number of ids generated so far and clk the wall
\* clock; the result carries both as the call leaves them.  entry is <<>>
\* when ValueError is raised.
create_entry(entry_type, name, description, content, tags, metadata, ids, clk) ==
    IF entry_type \notin ENTRY_TYPES
    THEN [raised |-> TRUE, entry |-> <<>>, issued |-> ids, clock |-> clk]
    ELSE LET now == clk + 1
         IN  [raised |-> FALSE,
              entry |-> <<[id |-> generate_id(ids), type |-> entry_type, name |-> name,
                           description |-> description, content |-> content,
                           tags |-> tags, created_at |-> now, updated_at |-> now,
                           metadata |-> metadata]>>,
              issued |-> ids + 1, clock |-> now]

allowed_fields == {"name", "description", "content", "tags", "metadata"}

\* models.update_entry(entry, **updates) at wall-clock time now
models_update_entry(entry, updates, now) ==
    LET kept == [k \in DOMAIN updates \cap allowed_fields |-> updates[k]]
    IN  Merge(Merge(entry, kept), [updated_at |-> now])

---------------------------------------------------------------------------
(* db.py: the vault is a TinyDB table, a mapping from document id to       *)
(* document that is read in ascending document id.                         *)

SetMax(S) == CHOOSE x \in S : \A y \in S : y <= x

SetMin(S) == CHOOSE x \in S : \A y \in S : x <= y

\* TinyDB's next document id: one more than the largest id of the table
next_doc_id(db) == IF DOMAIN db = {} THEN 1 ELSE SetMax(DOMAIN db) + 1

\* db.search(Entry.<field> == value): the ids of the matching documents
Matching(db, field, value) ==
    {k \in DOMAIN db : field \in DOMAIN db[k] /\ db[k][field] = value}

\* `result[0] if result else None`; None is <<>>
FirstOf(db, ids) == IF ids = {} THEN <<>> ELSE <<db[SetMin(ids)]>>

insert_entry(db, entry) ==
    [k \in DOMAIN db \cup {next_doc_id(db)} |-> IF k \in DOMAIN db THEN db[k] ELSE entry]

get_entry_by_id(db, entry_id) == FirstOf(db, Matching(db, "id", entry_id))

get_entry_by_name(db, name) == FirstOf(db, Matching(db, "name", name))

\* variant: the name is looked up before the id
get_entry_name_first(db, identifier) ==
    IF get_entry_by_name(db, identifier) # <<>>
    THEN get_entry_by_name(db, identifier)
    ELSE get_entry_by_id(db, identifier)

\* variant: the name is not looked up
get_entry_id_only(db, identifier) == get_entry_by_id(db, identifier)

get_entry(db, identifier) ==
    IF get_entry_by_id(db, identifier) # <<>>
    THEN get_entry_by_id(db, identifier)
    ELSE get_entry_by_name(db, identifier)

\* variant: db.close() follows the body without try / finally
Scoped_no_finally(raises) == IF raises THEN <<"open", "raise">> ELSE <<"open", "close">>

\* `db = get_db()`, `try: <body> finally: db.close()`: what a function of
\* db.py does with the vault file once get_db has found it; raises tells
\* whether the body raises
Scoped(raises) == <<"open">> \o (IF raises THEN <<"raise">> ELSE <<>>) \o <<"close">>

\* get_entry: get_entry_by_id, then get_entry_by_name if that found nothing
get_entry_handles(db, identifier) ==
    Scoped(FALSE)
    \o (IF get_entry_by_id(db, identifier) # <<>> THEN <<>> ELSE Scoped(FALSE))

\* db.update(updates, cond): every matching document is merged with updates
UpdateWhere(db, ids, updates) ==
    [k \in DOMAIN db |-> IF k \in ids THEN Merge(db[k], updates) ELSE db[k]]

\* db.remove(cond): every matching document is removed
RemoveWhere(db, ids) == [k \in DOMAIN db \ ids |-> db[k]]

\* db.update_entry: [db, ok]
db_update_entry(db, identifier, updates) ==
    LET byId   == Matching(db, "id", identifier)
        byName == Matching(db, "name", identifier)
    IN  IF byId # {} THEN [db |-> UpdateWhere(db, byId, updates), ok |-> TRUE]
        ELSE [db |-> UpdateWhere(db, byName, updates), ok |-> byName # {}]

\* variant: only the first matching document is removed
delete_entry_first_only(db, identifier) ==
    LET byId   == Matching(db, "id", identifier)
        byName == Matching(db, "name", identifier)
    IN  IF byId # {} THEN [db |-> RemoveWhere(db, {SetMin(byId)}), ok |-> TRUE]
        ELSE IF byName # {} THEN [db |-> RemoveWhere(db, {SetMin(byName)}), ok |-> TRUE]
        ELSE [db |-> db, ok |-> FALSE]

\* db.delete_entry: [db, ok]
delete_entry(db, identifier) ==
    LET byId   == Matching(db, "id", identifier)
        byName == Matching(db, "name", identifier)
    IN  IF byId # {} THEN [db |-> RemoveWhere(db, byId), ok |-> TRUE]
        ELSE [db |-> RemoveWhere(db, byName), ok |-> byName # {}]

\* db.all() and db.search(cond): the documents in ascending document id
RECURSIVE DocsOf(_, _)
DocsOf(db, ids) ==
    IF ids = {} THEN <<>>
    ELSE <<db[SetMin(ids)]>> \o DocsOf(db, ids \ {SetMin(ids)})

get_all_entries(db) == DocsOf(db, DOMAIN db)

get_entries_by_type(db, entry_type) == DocsOf(db, Matching(db, "type", entry_type))

\* Entry.tags.any([tag]): a document without tags does not match
get_entries_by_tag(db, tag) ==
    DocsOf(db, {k \in DOMAIN db :
                  "tags" \in DOMAIN db[k] /\ \E i \in 1..Len(db[k].tags) : db[k].tags[i] = tag})

\* the characters of the names and descriptions the commands are given
Chars(str) ==
    CASE str = "a" -> <<"a">>
      [] str = "d" -> <<"d">>
      [] str = "i1" -> <<"i", "1">>
      [] str = "i2" -> <<"i", "2">>
      [] str = "zz" -> <<"z", "z">>
      [] OTHER -> <<>>

\* " ".join(list)
RECURSIVE Join(_)
Join(texts) ==
    IF texts = <<>> THEN <<>>
    ELSE IF Len(texts) = 1 THEN texts[1]
    ELSE texts[1] \o <<" ">> \o Join(Tail(texts))

\* `a in b` on strings
Contains(text, q) ==
    \E i \in 0..(Len(text) - Len(q)) : SubSeq(text, i + 1, i + Len(q)) = q

\* the text search_entries looks in; entry.get("tags", []) when tags is absent
Searchable(entry) ==
    Lower(Join(<<Chars(entry.name), Chars(entry.description), entry.content,
                 Join(IF "tags" \in DOMAIN entry THEN entry.tags ELSE <<>>)>>))

search_entries(db, query) ==
    SelectSeq(get_all_entries(db), LAMBDA entry : Contains(Searchable(entry), Lower(query)))

\* a field value that is a JSON number; import and edit take it as it comes
JsonNumber == "<number>"

IsStr(value) == value # JsonNumber

\* " ".join([...]) in the loop of search_entries raises TypeError on a
\* description that is no string
search_entries_raises(db) == \E k \in DOMAIN db : ~IsStr(db[k].description)

\* get_all_tags: the set of the tags of all documents (sorted for display)
get_all_tags(db) ==
    UNION {{db[k].tags[i] : i \in 1..Len(db[k].tags)} :
              k \in {j \in DOMAIN db : "tags" \in DOMAIN db[j]}}

---------------------------------------------------------------------------
(* cli.py *)

\* str.strip
RECURSIVE LStrip(_)
LStrip(s) == IF s # <<>> /\ Head(s) = " " THEN LStrip(Tail(s)) ELSE s

RECURSIVE RStrip(_)
RStrip(s) ==
    IF s # <<>> /\ s[Len(s)] = " " THEN RStrip(SubSeq(s, 1, Len(s) - 1)) ELSE s

Strip(s) == RStrip(LStrip(s))

\* str.split(","): the pieces between the commas, the last one in cur
RECURSIVE SplitFrom(_, _, _)
SplitFrom(s, i, cur) ==
    IF i > Len(s) THEN <<cur>>
    ELSE IF s[i] = "," THEN <<cur>> \o SplitFrom(s, i + 1, <<>>)
    ELSE SplitFrom(s, i + 1, Append(cur, s[i]))

Split(s) == SplitFrom(s, 1, <<>>)

\* parse_tags; None and "" are <<>>
parse_tags(tags) ==
    IF tags = <<>> THEN <<>>
    ELSE LET pieces == Split(tags)
             kept == SelectSeq(pieces, LAMBDA t : Strip(t) # <<>>)
         IN  [i \in 1..Len(kept) |-> Strip(kept[i])]

\* what a command reported: its name, the identifier or path it was given
\* ("" when it takes none), the message it printed and whether an exception
\* left it; typed holds the answer to the command's own prompt, if it asked;
\* handles holds what the command did with handles of the vault file, in
\* order; for the write of an edit, read is the entry the command had read,
\* wrote the record it passed to db.update_entry and replaced the documents
\* the write changed, as they were
Report(cmd, arg, msg, raised) ==
    [cmd |-> cmd, arg |-> arg, msg |-> msg, raised |-> raised, typed |-> <<>>,
     handles |-> <<>>, read |-> <<>>, wrote |-> <<>>, replaced |-> {}]

Asked(report, answer) == [report EXCEPT !.typed = <<answer>>]

Handles(report, trace) == [report EXCEPT !.handles = trace]

Wrote(report, entry, updated, docs) ==
    [report EXCEPT !.read = <<entry>>, !.wrote = <<updated>>, !.replaced = docs]

NoReport == Report("none", "", "", FALSE)

\* the terminals the user works in; an edit keeps its terminal until its
\* editor exits
Terminals == {"t1", "t2"}

\* no command is running (edits may be waiting for their editors)
Idle == last = NoReport

\* a command can be started: a terminal is free
AtPrompt == Idle /\ Len(editing) < Cardinality(Terminals)

\* a command that writes nothing is followed when no editor is open: what it
\* reports depends on the vault alone, and every vault that is reached with
\* an editor open is reached without one (the editor exits with text that
\* is not JSON)
AtQuietPrompt == AtPrompt /\ editing = <<>>

NoVault == "Error: No vault found. Run 'devvault init' to create one."

\* what the add commands are given: an entry that is run, one that sends a
\* request (with a placeholder in its content and in its url) and one that
\* is displayed, under a name that is shared with another entry or that is
\* also an id, with and without tags
TagText == <<"t", ",", " ", ",">>

AddInputs ==
    {[type |-> "command", name |-> "a", content |-> <<"l", "s">>, url |-> <<>>, tags |-> <<>>],
     [type |-> "api", name |-> "a", content |-> PH_A, url |-> <<"u">> \o PH_A, tags |-> TagText],
     [type |-> "note", name |-> "i2", content |-> <<"l", "s">>, url |-> <<>>, tags |-> <<>>]}

\* identifiers the commands are called with: a name, an id that is also a
\* name, and one that is neither
Identifiers == {"a", "i2", "zz"}

AddMetadata(t, url) ==
    IF t = "api" THEN [method |-> "GET", url |-> url, headers |-> EmptyDict]
    ELSE EmptyDict

\* init
CliInit ==
    /\ AtQuietPrompt
    /\ IF vault
       THEN /\ last' = Report("init", "", "Warning: Vault already exists in this directory", FALSE)
            /\ UNCHANGED vault
       ELSE /\ vault' = TRUE
            /\ last' = Handles(Report("init", "", "Vault initialized", FALSE), Scoped(FALSE))
    /\ UNCHANGED <<store, clock, issued, editing, exported>>
    /\ UNCHANGED execVars

\* add command | api | snippet | note | file | playbook: the record is made
\* first, then inserted; FileNotFoundError from get_db is not caught here
CliAdd(t, name, content, url, tagsRaw) ==
    /\ AtPrompt
    /\ clock < MaxClock
    /\ LET made == create_entry(t, name, "d", content, parse_tags(tagsRaw),
                               AddMetadata(t, url), issued, clock)
       IN  /\ issued' = made.issued
           /\ clock' = made.clock
           /\ IF ~vault
              THEN /\ last' = Report("add", "", "FileNotFoundError: No vault found", TRUE)
                   /\ UNCHANGED store
              ELSE /\ store' = insert_entry(store, made.entry[1])
                   /\ last' = Handles(Report("add", "", "Added", FALSE), Scoped(FALSE))
    /\ UNCHANGED <<vault, editing, exported>>
    /\ UNCHANGED execVars

\* models.create_entry called with a type outside ENTRY_TYPES
CreateInvalid(t) ==
    /\ AtQuietPrompt
    /\ LET made == create_entry(t, "a", "d", <<"l", "s">>, <<>>, EmptyDict, issued, clock)
       IN  /\ made.raised
           /\ issued' = made.issued
           /\ clock' = made.clock
           /\ last' = Report("create_entry", "", "ValueError: Invalid entry type", TRUE)
    /\ UNCHANGED <<vault, store, editing, exported>>
    /\ UNCHANGED execVars

\* show
CliShow(identifier) ==
    /\ AtQuietPrompt
    /\ IF ~vault THEN last' = Report("show", identifier, NoVault, FALSE)
       ELSE IF get_entry(store, identifier) = <<>>
            THEN last' = Handles(Report("show", identifier, "Error: Entry not found", FALSE),
                                get_entry_handles(store, identifier))
            ELSE last' = Handles(Report("show", identifier, "shown", FALSE),
                                 get_entry_handles(store, identifier))
    /\ UNCHANGED <<vault, store, clock, issued, editing, exported>>
    /\ UNCHANGED execVars

\* utils.format_entry_table: entry.get("description", "")[:50] raises
\* TypeError on a description that is no string
format_entry_table_raises(entries) ==
    \E i \in 1..Len(entries) : ~IsStr(entries[i].description)

\* list, with --type, with --tag or with neither (None is <<>>)
CliList(entry_type, tag) ==
    /\ AtQuietPrompt
    /\ IF ~vault THEN last' = Report("list", "", NoVault, FALSE)
       ELSE LET entries == IF entry_type # <<>> THEN get_entries_by_type(store, entry_type[1])
                           ELSE IF tag # <<>> THEN get_entries_by_tag(store, tag[1])
                           ELSE get_all_entries(store)
            IN  IF entries = <<>>
                THEN last' = Handles(Report("list", "", "No entries found", FALSE),
                                     Scoped(FALSE))
                ELSE IF format_entry_table_raises(entries)
                THEN last' = Handles(Report("list", "", "TypeError", TRUE), Scoped(FALSE))
                ELSE last' = Handles(Report("list", "", "table", FALSE), Scoped(FALSE))
    /\ UNCHANGED <<vault, store, clock, issued, editing, exported>>
    /\ UNCHANGED execVars

\* search
CliSearch(query) ==
    /\ AtQuietPrompt
    /\ IF ~vault THEN last' = Report("search", "", NoVault, FALSE)
       ELSE IF search_entries_raises(store)
            THEN \* the exception leaves search_entries through its finally clause
                 last' = Handles(Report("search", "", "TypeError", TRUE), Scoped(TRUE))
       ELSE IF search_entries(store, query) = <<>>
            THEN last' = Handles(Report("search", "", "No entries found matching", FALSE),
                                 Scoped(FALSE))
            ELSE last' = Handles(Report("search", "", "table", FALSE), Scoped(FALSE))
    /\ UNCHANGED <<vault, store, clock, issued, editing, exported>>
    /\ UNCHANGED execVars

\* tags
CliTags ==
    /\ AtQuietPrompt
    /\ IF ~vault THEN last' = Report("tags", "", NoVault, FALSE)
       ELSE IF get_all_tags(store) = {}
            THEN last' = Handles(Report("tags", "", "No tags found", FALSE), Scoped(FALSE))
            ELSE last' = Handles(Report("tags", "", "Tags:", FALSE), Scoped(FALSE))
    /\ UNCHANGED <<vault, store, clock, issued, editing, exported>>
    /\ UNCHANGED execVars

\* what the user and the outside world answer during a `run`
RunEnvs(entry, confirm) ==
    {env \in Envs(entry, confirm) :
        /\ \A i \in DOMAIN env.answers : env.answers[i] = <<"v">>
        /\ env.answer \in {<<>>, <<"y">>, <<"n">>}
        /\ env.returncode = 0
        /\ env.net.status = 200}

\* variant: the record execute_entry leaves is written back to the vault
CliRun_writes_back(identifier, yes) ==
    /\ AtPrompt
    /\ vault /\ get_entry(store, identifier) # <<>>
    /\ LET entry == get_entry(store, identifier)[1]
       IN  \E env \in RunEnvs(entry, ~yes) :
              LET r == execute_entry(entry, ~yes, env)
              IN  /\ calls' = <<CallRecord(0, entry, ~yes, r)>>
                  /\ store' = db_update_entry(store, identifier, r.entry).db
                  /\ last' = Handles(Report("run", identifier, "executed", FALSE),
                                     get_entry_handles(store, identifier) \o Scoped(FALSE))
    /\ UNCHANGED <<vault, clock, issued, editing, exported>>
    /\ UNCHANGED <<pc, result, playbook, step, out>>

\* run: the calls of the command's process are in `calls` until it exits
CliRun(identifier, yes) ==
    /\ AtQuietPrompt
    /\ IF ~vault
       THEN /\ last' = Report("run", identifier, NoVault, FALSE)
            /\ UNCHANGED calls
       ELSE IF get_entry(store, identifier) = <<>>
       THEN /\ last' = Handles(Report("run", identifier, "Error: Entry not found", FALSE),
                                get_entry_handles(store, identifier))
            /\ UNCHANGED calls
       ELSE LET entry == get_entry(store, identifier)[1]
            IN  \E env \in RunEnvs(entry, ~yes) :
                   /\ calls' = <<CallRecord(0, entry, ~yes, execute_entry(entry, ~yes, env))>>
                   /\ last' = Handles(Report("run", identifier, "executed", FALSE),
                                      get_entry_handles(store, identifier))
    /\ UNCHANGED <<vault, store, clock, issued, editing, exported>>
    /\ UNCHANGED <<pc, result, playbook, step, out>>

\* export -o <path>: the entry is written to the file as JSON
CliExport(identifier) ==
    /\ AtQuietPrompt
    /\ IF ~vault
       THEN /\ last' = Report("export", identifier, NoVault, FALSE)
            /\ UNCHANGED exported
       ELSE IF get_entry(store, identifier) = <<>>
       THEN /\ last' = Handles(Report("export", identifier, "Error: Entry not found", FALSE),
                                get_entry_handles(store, identifier))
            /\ UNCHANGED exported
       ELSE /\ exported' = get_entry(store, identifier)
            /\ last' = Handles(Report("export", identifier, "Exported", FALSE),
                               get_entry_handles(store, identifier))
    /\ UNCHANGED <<vault, store, clock, issued, editing>>
    /\ UNCHANGED execVars

\* the files given to import, by path: one that does not exist, text that is
\* not JSON, a JSON number, a JSON object without "content", and JSON
\* objects with the required fields (one of them with an unknown type and a
\* number as description)
ImportDoc(type, name, tags) ==
    [type |-> type, name |-> name, description |-> "d", content |-> <<"l", "s">>, tags |-> tags]

ImportFiles ==
    {[path |-> "none", kind |-> "missing", doc |-> EmptyDict],
     [path |-> "bad", kind |-> "invalid", doc |-> EmptyDict],
     [path |-> "num", kind |-> "scalar", doc |-> EmptyDict],
     [path |-> "part", kind |-> "json",
      doc |-> [type |-> "command", name |-> "a", description |-> "d"]]}
    \cup {[path |-> "f", kind |-> "json", doc |-> d] :
            d \in {Merge(ImportDoc("bogus", "a", <<>>), [description |-> JsonNumber]),
                   ImportDoc("note", "i2", <<<<" ">>>>),
                   [type |-> "note", name |-> "a", description |-> "d",
                    content |-> <<"l", "s">>, id |-> "i1", created_at |-> 0, updated_at |-> 0]}}

\* the file the export that just ran left at its path
ExportedFiles ==
    IF exported = <<>> THEN {} ELSE {[path |-> "o", kind |-> "json", doc |-> exported[1]]}

\* the command runs after an export, on the file it wrote
AfterExport == last.cmd = "export" /\ exported # <<>>

\* variant: content is not asked for
required_without_content == {"type", "name", "description"}

required == {"type", "name", "description", "content"}

\* variant: an id and timestamps the file brings are kept (dict.setdefault)
stamp_imported_setdefault(entry, ids, now) ==
    Merge([id |-> generate_id(ids), created_at |-> now, updated_at |-> now], entry)

\* import_entry, lines 389-394: entry["id"], entry["created_at"] and
\* entry["updated_at"] are assigned
stamp_imported(entry, ids, now) ==
    Merge(entry, [id |-> generate_id(ids), created_at |-> now, updated_at |-> now])

\* import
CliImport(file) ==
    /\ IF file.path = "o" THEN AfterExport
       ELSE IF file.kind = "json" /\ required \subseteq DOMAIN file.doc THEN AtPrompt
       ELSE AtQuietPrompt
    /\ clock < MaxClock
    /\ IF file.kind = "missing"
       THEN /\ last' = Report("import", file.path, "Error: File not found", FALSE)
            /\ UNCHANGED <<store, clock, issued>>
       ELSE IF file.kind = "invalid"
       THEN /\ last' = Report("import", file.path, "Error: Invalid JSON file", FALSE)
            /\ UNCHANGED <<store, clock, issued>>
       ELSE IF file.kind = "scalar"
       THEN \* `field not in entry` on a number
            /\ last' = Report("import", file.path, "TypeError", TRUE)
            /\ UNCHANGED <<store, clock, issued>>
       ELSE IF ~(required \subseteq DOMAIN file.doc)
       THEN /\ last' = Report("import", file.path, "Error: Missing required field", FALSE)
            /\ UNCHANGED <<store, clock, issued>>
       ELSE LET now == clock + 1
                entry == stamp_imported(file.doc, issued, now)
            IN  /\ issued' = issued + 1
                /\ clock' = now
                /\ IF ~vault
                   THEN \* get_db's FileNotFoundError meets import's own handler
                        /\ last' = Report("import", file.path, "Error: File not found", FALSE)
                        /\ UNCHANGED store
                   ELSE /\ store' = insert_entry(store, entry)
                        /\ last' = Handles(Report("import", file.path, "Imported", FALSE),
                                           Scoped(FALSE))
    /\ UNCHANGED <<vault, editing, exported>>
    /\ UNCHANGED execVars

\* edit, up to the start of the editor: the entry is read and written to a
\* temporary file
CliEditOpen(identifier) ==
    /\ AtPrompt
    /\ IF ~vault
       THEN /\ last' = Report("edit", identifier, NoVault, FALSE)
            /\ UNCHANGED editing
       ELSE IF get_entry(store, identifier) = <<>>
       THEN /\ last' = Handles(Report("edit", identifier, "Error: Entry not found", FALSE),
                                get_entry_handles(store, identifier))
            /\ UNCHANGED editing
       ELSE /\ editing' = Append(editing, [identifier |-> identifier,
                                           entry |-> get_entry(store, identifier)[1]])
            /\ last' = Handles(Report("edit", identifier, "editor started", FALSE),
                               get_entry_handles(store, identifier))
    /\ UNCHANGED <<vault, store, clock, issued, exported>>
    /\ UNCHANGED execVars

\* what the user can leave in the temporary file: the JSON of the entry as it
\* was or with its name, its tags, its id (to one issued before) or its
\* creation time changed, JSON that is no object, or text that is not JSON
Edits(entry) ==
    {[kind |-> "invalid", doc |-> EmptyDict], [kind |-> "nondict", doc |-> EmptyDict]}
    \cup {[kind |-> "json", doc |-> d] :
            d \in {entry,
                   Merge(entry, [name |-> "i2"]),
                   Merge(entry, [tags |-> <<<<" ">>>>]),
                   Merge(entry, [id |-> "i1"]),
                   Merge(entry, [created_at |-> MaxClock + 1])}}

\* variant: only the fields the user changed in the editor are written
edited_record_changes_only(doc, entry, now) ==
    Merge([k \in {f \in DOMAIN doc : f \notin DOMAIN entry \/ doc[f] # entry[f]} |-> doc[k]],
          [updated_at |-> models_update_entry(entry, EmptyDict, now).updated_at])

\* edit, lines 298-304: the whole record the editor left, with the
\* updated_at that models.update_entry gives the entry that was read
edited_record(doc, entry, now) ==
    Merge(doc, [updated_at |-> models_update_entry(entry, EmptyDict, now).updated_at])

\* the documents of db that are not in after as they were
Replaced(db, after) == {db[k] : k \in {j \in DOMAIN db : j \notin DOMAIN after \/ after[j] # db[j]}}

\* edit, from the exit of the editor of the n-th waiting edit on
CliEditSave(n, file) ==
    /\ Idle
    /\ n \in 1..Len(editing)
    /\ file.kind # "invalid" => clock < MaxClock
    /\ LET identifier == editing[n].identifier
           entry == editing[n].entry
           now == clock + 1
       IN  IF file.kind = "invalid"
           THEN /\ last' = Report("edit", identifier, "Error: Invalid JSON in edited file", FALSE)
                /\ UNCHANGED <<store, clock>>
           ELSE IF file.kind = "nondict"
           THEN \* the item assignment fails after models.update_entry ran
                /\ last' = Report("edit", identifier, "TypeError", TRUE)
                /\ clock' = now
                /\ UNCHANGED store
           ELSE LET updated == edited_record(file.doc, entry, now)
                    written == db_update_entry(store, identifier, updated).db
                IN  /\ store' = written
                    /\ clock' = now
                    /\ last' = Wrote(Handles(Report("edit", identifier, "Updated entry", FALSE),
                                             Scoped(FALSE)),
                                     entry, updated, Replaced(store, written))
    /\ editing' = [i \in 1..(Len(editing) - 1) |-> IF i < n THEN editing[i] ELSE editing[i + 1]]
    /\ UNCHANGED <<vault, issued, exported>>
    /\ UNCHANGED execVars

\* delete; answer is what the user types at the Delete? prompt
CliDelete(identifier, yes, answer) ==
    /\ AtPrompt
    /\ IF ~vault
       THEN /\ last' = Report("delete", identifier, NoVault, FALSE)
            /\ UNCHANGED store
       ELSE IF get_entry(store, identifier) = <<>>
       THEN /\ last' = Handles(Report("delete", identifier, "Error: Entry not found", FALSE),
                                get_entry_handles(store, identifier))
            /\ UNCHANGED store
       ELSE IF ~yes /\ Declined(answer)
       THEN /\ last' = Handles(Asked(Report("delete", identifier, "Cancelled", FALSE), answer),
                               get_entry_handles(store, identifier))
            /\ UNCHANGED store
       ELSE /\ store' = delete_entry(store, identifier).db
            /\ last' = Handles(IF yes THEN Report("delete", identifier, "Deleted entry", FALSE)
                               ELSE Asked(Report("delete", identifier, "Deleted entry", FALSE),
                                          answer),
                               get_entry_handles(store, identifier) \o Scoped(FALSE))
    /\ UNCHANGED <<vault, clock, issued, editing, exported>>
    /\ UNCHANGED execVars

\* the process of the command exits; an exported file that the next command
\* did not import is not followed further
CliExit ==
    /\ ~AtPrompt
    /\ last' = NoReport
    /\ calls' = <<>>
    /\ exported' = <<>>
    /\ UNCHANGED <<vault, store, clock, issued, editing>>
    /\ UNCHANGED <<pc, result, playbook, step, out>>

StoreNext ==
    \/ CliExit
    \/ CliInit
    \/ \E a \in AddInputs : CliAdd(a.type, a.name, a.content, a.url, a.tags)
    \/ \E t \in {"bogus", ""} : CreateInvalid(t)
    \/ \E identifier \in Identifiers : CliShow(identifier)
    \/ \E f \in {[type |-> <<>>, tag |-> <<>>], [type |-> <<"command">>, tag |-> <<>>],
                  [type |-> <<>>, tag |-> <<<<"t">>>>]} : CliList(f.type, f.tag)
    \/ \E query \in {<<"L">>, <<"t">>} : CliSearch(query)
    \/ CliTags
    \/ \E identifier \in Identifiers, yes \in BOOLEAN : CliRun(identifier, yes)
    \/ \E identifier \in Identifiers : CliExport(identifier)
    \/ \E file \in ImportFiles \cup ExportedFiles : CliImport(file)
    \/ \E identifier \in Identifiers : CliEditOpen(identifier)
    \/ \E n \in 1..Len(editing) : \E file \in Edits(editing[n].entry) : CliEditSave(n, file)
    \/ \E identifier \in Identifiers, yes \in BOOLEAN :
          \E answer \in (IF yes THEN {<<>>} ELSE {<<"Y">>, <<"n">>, <<>>}) :
             CliDelete(identifier, yes, answer)

\* the CLI commands run against one directory from the terminals, one after
\* another or, around the open editors, interleaved
SpecStore == Init /\ [][StoreNext]_vars

---------------------------------------------------------------------------
(* Properties of the executor. *)

\* the calls execute_playbook has made (a direct call has step 0)
InPlaybook == step >= 1

\* the Execute? prompts of a call
ConfirmInputs(c) == SelectSeq(c.inputs, LAMBDA x : x.kind = "confirm")

\* the variable prompts of a call
VarInputs(c) == SelectSeq(c.inputs, LAMBDA x : x.kind = "var")

\* the spellings of y and yes in any case
YesAnswers ==
    {<<"y">>, <<"Y">>}
    \cup {<<a, b, c>> : a \in {"y", "Y"}, b \in {"e", "E"}, c \in {"s", "S"}}

\* the call went past the confirmation gate
Approved(c) ==
    \/ ~c.confirm
    \/ ConfirmInputs(c) # <<>> /\ ConfirmInputs(c)[1].answer \in YesAnswers

\* C1: execute_playbook calls execute_entry on the steps in list order, one
\* call per step; a call is made only when every earlier call returned true,
\* so nothing runs after the first failing step; and the result is true iff
\* every step of the list was called and returned true (the empty list
\* returns true).
C1_PlaybookFailFast ==
    InPlaybook =>
        /\ Len(calls) <= Len(playbook)
        /\ \A k \in 1..Len(calls) :
              /\ calls[k].step = k
              /\ calls[k].after = playbook[k]
              /\ k < Len(calls) => calls[k].ret
        /\ pc = "done" =>
              /\ result = (/\ Len(calls) = Len(playbook)
                           /\ \A k \in 1..Len(calls) : calls[k].ret)
              /\ ~result => ~calls[Len(calls)].ret

\* a three-step playbook stopped by its second step
C1_Witness ==
    /\ InPlaybook /\ pc = "done" /\ ~result
    /\ Len(playbook) = 3 /\ Len(calls) = 2

\* the empty playbook returned true
C1_WitnessEmpty == InPlaybook /\ pc = "done" /\ playbook = <<>> /\ result

\* C2: a command or api entry called with confirm=true whose Execute? prompt
\* is answered with anything but y / yes (in any case) returns false, spawns
\* no subprocess and issues no request.
C2_DeclineHasNoEffect ==
    \A k \in 1..Len(calls) :
        LET c == calls[k]
        IN  (c.entry.type \in {"command", "api"} /\ c.confirm) =>
                /\ Len(ConfirmInputs(c)) = 1
                /\ ConfirmInputs(c)[1].answer \notin YesAnswers =>
                      /\ ~c.ret
                      /\ c.spawned = <<>>
                      /\ c.requests = <<>>

\* an api entry whose prompt was answered with the empty line
C2_Witness ==
    \E k \in 1..Len(calls) :
        /\ calls[k].entry.type = "api" /\ calls[k].confirm
        /\ ConfirmInputs(calls[k])[1].answer = <<>>
        /\ ~calls[k].ret /\ calls[k].requests = <<>>

\* C3 as stated: every step of a playbook is called with confirm=false and
\* no step waits for a line of user input.
C3_PlaybookNeverWaitsForInput ==
    InPlaybook =>
        \A k \in 1..Len(calls) : ~calls[k].confirm /\ calls[k].inputs = <<>>

\* C3 amended: every step of a playbook is called with confirm=false and no
\* step asks the Execute? question; a step waits for user input exactly to
\* ask for the value of each placeholder occurrence of its content, so only
\* a step without placeholders runs without input.
C3_PlaybookSkipsConfirmation ==
    InPlaybook =>
        \A k \in 1..Len(calls) :
            LET c == calls[k]
            IN  /\ ~c.confirm
                /\ ConfirmInputs(c) = <<>>
                /\ Len(c.inputs) = Len(extract_variables(c.entry.content))
                /\ \A i \in 1..Len(c.inputs) :
                      c.inputs[i].name = extract_variables(c.entry.content)[i]

\* a playbook step that asked for the value of a variable
C3_Witness ==
    /\ InPlaybook
    /\ \E k \in 1..Len(calls) : ~calls[k].confirm /\ VarInputs(calls[k]) # <<>>

\* the values typed at the variable prompts of a call, as prompt_for_variables
\* collects them
TypedValues(c) ==
    prompt_for_variables([i \in 1..Len(VarInputs(c)) |-> VarInputs(c)[i].name],
                         [i \in 1..Len(VarInputs(c)) |-> VarInputs(c)[i].answer])

\* C4: a command entry that is approved, or called with confirm=false,
\* spawns exactly one subprocess, whose command line is the content with the
\* typed values substituted, and returns true iff its exit code is 0.
C4_CommandRunsOnce ==
    \A k \in 1..Len(calls) :
        LET c == calls[k]
        IN  (c.entry.type = "command" /\ Approved(c)) =>
                /\ Len(c.spawned) = 1
                /\ c.spawned[1].cmd = substitute_variables(c.entry.content, TypedValues(c))
                /\ c.ret = (c.spawned[1].returncode = 0)
                /\ c.requests = <<>>

\* an approved command with a placeholder that exited with a nonzero code
C4_Witness ==
    \E k \in 1..Len(calls) :
        /\ calls[k].entry.type = "command" /\ calls[k].confirm /\ Approved(calls[k])
        /\ VarInputs(calls[k]) # <<>>
        /\ Len(calls[k].spawned) = 1 /\ calls[k].spawned[1].returncode = 127
        /\ ~calls[k].ret

\* the response a call obtained, if any
GotResponse(c) ==
    /\ c.entry.type = "api"
    /\ c.requests # <<>>
    /\ c.requests[1].outcome.kind = "response"

\* C5 as stated: an api call that obtained a response returns true iff the
\* status code is a 2xx code.
C5_SuccessIff2xx ==
    \A k \in 1..Len(calls) :
        GotResponse(calls[k]) =>
            LET status == calls[k].requests[1].outcome.status
            IN  calls[k].ret = (200 <= status /\ status <= 299)

\* C5 amended: an api call that obtained a response returns true iff the
\* status code is not a 4xx or 5xx code.
C5_SuccessIffNotError ==
    \A k \in 1..Len(calls) :
        GotResponse(calls[k]) =>
            LET status == calls[k].requests[1].outcome.status
            IN  calls[k].ret = ~(400 <= status /\ status <= 599)

\* an api call answered with 304 returned true
C5_Witness ==
    \E k \in 1..Len(calls) :
        /\ GotResponse(calls[k])
        /\ calls[k].requests[1].outcome.status = 304
        /\ calls[k].ret

\* C6: a snippet, note, file or playbook entry is never executed: for either
\* value of confirm the call returns true, asks no Execute? question, spawns
\* no subprocess and issues no request, and a direct call on a playbook
\* entry is the only call made (its content is not run as steps).
C6_InertTypes ==
    /\ \A k \in 1..Len(calls) :
          LET c == calls[k]
          IN  c.entry.type \in {"snippet", "note", "file", "playbook"} =>
                  /\ c.ret
                  /\ ConfirmInputs(c) = <<>>
                  /\ c.spawned = <<>>
                  /\ c.requests = <<>>
    /\ (~InPlaybook /\ pc = "done") => (Len(calls) = 1 /\ result = calls[1].ret)

\* a playbook entry with content called directly with confirm=true
C6_Witness ==
    /\ ~InPlaybook /\ pc = "done" /\ result
    /\ calls[1].entry.type = "playbook" /\ calls[1].confirm
    /\ calls[1].entry.content = <<"l", "s">>

\* C7: a call on an entry whose type is none of the six known kinds returns
\* false, shows the unknown-entry-type error, spawns no subprocess and issues
\* no request.
C7_UnknownType ==
    \A k \in 1..Len(calls) :
        LET c == calls[k]
        IN  c.entry.type \notin {"command", "api", "snippet", "note", "file", "playbook"} =>
                /\ ~c.ret
                /\ \E i \in 1..Len(c.out) : c.out[i] = "Error: Unknown entry type"
                /\ c.spawned = <<>>
                /\ c.requests = <<>>

\* a call on an entry of unknown type
C7_Witness ==
    \E k \in 1..Len(calls) :
        /\ calls[k].entry.type = "unknown" /\ calls[k].confirm /\ ~calls[k].ret

\* C8: an api call that went past the confirmation gate with an empty url
\* makes no request, reports the missing url and returns false; one whose
\* request failed in transport reports the failure and returns false.
C8_RequesterFailures ==
    \A k \in 1..Len(calls) :
        LET c == calls[k]
        IN  (c.entry.type = "api" /\ Approved(c)) =>
                /\ c.after.metadata.url = <<>> =>
                      /\ c.requests = <<>>
                      /\ ~c.ret
                      /\ \E i \in 1..Len(c.out) : c.out[i] = "Error: No URL specified"
                /\ (c.requests # <<>> /\ c.requests[1].outcome.kind = "error") =>
                      /\ ~c.ret
                      /\ \E i \in 1..Len(c.out) : c.out[i] = "Error: Request failed"

\* an approved api call on an entry without url
C8_Witness ==
    \E k \in 1..Len(calls) :
        /\ calls[k].entry.type = "api" /\ calls[k].confirm /\ Approved(calls[k])
        /\ calls[k].after.metadata.url = <<>>
        /\ ~calls[k].ret

\* an api call whose request failed in transport
C8_WitnessTransport ==
    \E k \in 1..Len(calls) :
        /\ calls[k].requests # <<>> /\ calls[k].requests[1].outcome.kind = "error"
        /\ ~calls[k].ret

---------------------------------------------------------------------------
(* Properties of the stored entries. *)

\* C9: a document of the vault keeps its id, type and created_at in every
\* step of every command: an update or an edit that names these fields
\* leaves them as they were at creation.
C9_ProtectedFieldsKept ==
    [][\A k \in DOMAIN store \cap DOMAIN store' :
          /\ store'[k].id = store[k].id
          /\ store'[k].type = store[k].type
          /\ store'[k].created_at = store[k].created_at]_vars

\* models.update_entry on a stored entry, asked to change every field:
\* the filter of allowed_fields keeps id, type and created_at
C9_ModelsUpdateKeepsProtected ==
    \A k \in DOMAIN store :
        LET asked == [id |-> "zz", type |-> "bogus", created_at |-> 0, name |-> "zz"]
            got   == models_update_entry(store[k], asked, clock + 1)
        IN  /\ got.id = store[k].id
            /\ got.type = store[k].type
            /\ got.created_at = store[k].created_at
            /\ got.name = "zz"

\* C10: every document of the vault has one of the six types, whatever
\* add, import, edit and delete commands ran; and create_entry called with
\* another type fails without taking an id or reading the clock.
C10_TypesClosed ==
    [][/\ \A k \in DOMAIN store' :
             store'[k].type \in {"command", "api", "snippet", "note", "file", "playbook"}
       /\ last'.cmd = "create_entry" =>
             /\ last'.raised
             /\ issued' = issued /\ clock' = clock /\ store' = store]_vars

\* the part of C10 about create_entry alone
C10_InvalidCreateAllocatesNothing ==
    [][last'.cmd = "create_entry" =>
          /\ last'.raised
          /\ issued' = issued /\ clock' = clock /\ store' = store]_vars

\* C11: in every step of every command, each document of the vault has
\* created_at <= updated_at, and a document that the step wrote or changed
\* has the time of the step as its updated_at.
C11_TimestampsOrdered ==
    [][/\ \A k \in DOMAIN store' : store'[k].created_at <= store'[k].updated_at
       /\ \A k \in DOMAIN store' :
             (k \notin DOMAIN store \/ store'[k] # store[k]) =>
                 store'[k].updated_at = clock']_vars

\* the part of C11 about the edit command's own timestamp: a document that
\* an edit changed has the time of the save as its updated_at
C11_EditRefreshesUpdatedAt ==
    [][(last'.cmd = "edit" /\ last'.msg = "Updated entry") =>
          /\ clock' = clock + 1
          /\ \A k \in DOMAIN store' : store'[k] # store[k] => store'[k].updated_at = clock']_vars

\* C12: no document of the vault has a tag that is empty or only whitespace,
\* whatever add, import and edit commands wrote it.
C12_NoBlankTags ==
    \A k \in DOMAIN store :
        "tags" \in DOMAIN store[k] =>
            \A i \in 1..Len(store[k].tags) : Strip(store[k].tags[i]) # <<>>

\* the part of C12 about the add path: the tags parse_tags returns are
\* trimmed and not empty
C12_AddDropsBlankTags ==
    [][last'.cmd = "add" /\ last'.msg = "Added" =>
          \A k \in DOMAIN store' \ DOMAIN store :
              \A i \in 1..Len(store'[k].tags) :
                  store'[k].tags[i] # <<>> /\ Strip(store'[k].tags[i]) = store'[k].tags[i]]_vars

\* some document of db has the identifier as its id
HasId(db, identifier) == \E k \in DOMAIN db : db[k].id = identifier

\* the document is one the identifier resolves to in db: by id when some
\* document has that id, by name only otherwise
Resolves(db, identifier, doc) ==
    IF HasId(db, identifier) THEN doc.id = identifier ELSE doc.name = identifier

\* the command that just ran, with the identifier it was given
Did(cmd, msg) == last'.cmd = cmd /\ last'.msg = msg

\* C13: an identifier resolves by id before name.  The entry that export,
\* edit and run obtain from get_entry has the identifier as its id whenever
\* some stored entry has that id, also when another entry has it as its
\* name; the write of an edit changes, and a delete removes, entries with
\* that id only; entries are reached by name only when no entry has that id.
C13_IdBeforeName ==
    [][LET identifier == last'.arg
       IN  /\ Did("export", "Exported") =>
                 /\ \E k \in DOMAIN store : store[k] = exported'[1]
                 /\ Resolves(store, identifier, exported'[1])
           /\ Did("edit", "editor started") =>
                 /\ editing' = Append(editing, editing'[Len(editing')])
                 /\ \E k \in DOMAIN store : store[k] = editing'[Len(editing')].entry
                 /\ Resolves(store, identifier, editing'[Len(editing')].entry)
           /\ Did("run", "executed") =>
                 /\ \E k \in DOMAIN store : store[k] = calls'[1].entry
                 /\ Resolves(store, identifier, calls'[1].entry)
           /\ Did("edit", "Updated entry") =>
                 /\ DOMAIN store' = DOMAIN store
                 /\ \A k \in DOMAIN store :
                       store'[k] # store[k] <=> Resolves(store, identifier, store[k])
           /\ Did("delete", "Deleted entry") =>
                 /\ \A k \in DOMAIN store :
                       k \notin DOMAIN store' <=> Resolves(store, identifier, store[k])
                 /\ \A k \in DOMAIN store' : k \in DOMAIN store /\ store'[k] = store[k]]_vars

\* a delete by an identifier that was the id of one entry and the name of
\* another: the entry with that name is still there
C13_Witness ==
    /\ last.cmd = "delete" /\ last.msg = "Deleted entry" /\ last.arg = "i2"
    /\ \E k \in DOMAIN store : store[k].name = "i2" /\ store[k].id # "i2"

\* an export by an identifier that is the id of one entry and the name of
\* another
C13_WitnessGet ==
    /\ last.cmd = "export" /\ last.msg = "Exported" /\ last.arg = "i2"
    /\ exported[1].id = "i2" /\ exported[1].name # "i2"
    /\ \E k \in DOMAIN store : store[k].name = "i2" /\ store[k].id # "i2"

\* C14 as stated: once a delete has removed by an identifier, get_entry of
\* that identifier returns None.
C14_DeletedIsGone ==
    (last.cmd = "delete" /\ last.msg = "Deleted entry") => get_entry(store, last.arg) = <<>>

\* C14 amended: once a delete has removed by an identifier, no stored entry
\* has that id; get_entry of the identifier returns None when the deletion
\* matched by name, and when it matched by id it returns None unless an
\* entry has the identifier as its name, which it then returns.
C14_DeletedIsGoneById ==
    [][Did("delete", "Deleted entry") =>
          LET identifier == last'.arg
              got == get_entry(store', identifier)
          IN  /\ ~HasId(store', identifier)
              /\ ~HasId(store, identifier) => got = <<>>
              /\ got # <<>> =>
                    /\ HasId(store, identifier)
                    /\ got[1].name = identifier
                    /\ \E k \in DOMAIN store : store[k] = got[1]
              /\ got = <<>> => \A k \in DOMAIN store' : store'[k].name # identifier]_vars

\* a delete matched by id after which get_entry returns the entry that has
\* the identifier as its name
C14_Witness ==
    /\ last.cmd = "delete" /\ last.msg = "Deleted entry"
    /\ get_entry(store, last.arg) # <<>>
    /\ get_entry(store, last.arg)[1].name = last.arg

\* a delete matched by name that removed two entries of that name
C14_WitnessByName ==
    /\ last.cmd = "delete" /\ last.msg = "Deleted entry" /\ last.arg = "a"
    /\ get_entry(store, "a") = <<>>
    /\ \E k \in DOMAIN store : store[k].name = "i2" /\ k = 3

\* the fields an import is to carry over
Carried == {"type", "name", "description", "content", "tags"}

\* C15: an import of the file an export wrote adds exactly one document; it
\* has the type, name, description, content and tags of the exported entry,
\* an id that is not the exported entry's, and the time of the import as
\* created_at and updated_at; the exported entry and every other document
\* stay in the vault as they were.
C15_ExportImportRoundTrip ==
    [][(Did("import", "Imported") /\ last'.arg = "o") =>
          LET original == exported[1]
              added    == DOMAIN store' \ DOMAIN store
          IN  /\ \E k \in DOMAIN store : store[k] = original
              /\ Cardinality(added) = 1
              /\ \A k \in added :
                    /\ \A f \in Carried \cap DOMAIN original : store'[k][f] = original[f]
                    /\ DOMAIN store'[k] = DOMAIN original
                    /\ store'[k].id # original.id
                    /\ clock' = clock + 1
                    /\ store'[k].created_at = clock'
                    /\ store'[k].updated_at = clock'
                    /\ store'[k].updated_at > original.updated_at
              /\ \A k \in DOMAIN store : k \in DOMAIN store' /\ store'[k] = store[k]]_vars

\* an entry made by add was exported and imported: the vault holds it twice,
\* under two ids
C15_Witness ==
    /\ last.cmd = "import" /\ last.msg = "Imported" /\ last.arg = "o"
    /\ \E j, k \in DOMAIN store :
          /\ store[j] = exported[1]
          /\ store[j].type = "api" /\ store[j].tags = <<<<"t">>>>
          /\ store[k].id # store[j].id
          /\ store[k].name = store[j].name /\ store[k].tags = store[j].tags
          /\ store[k].created_at > store[j].created_at

\* C16: an import of a file that is not JSON, or of a JSON object that lacks
\* a required field, reports that error and writes nothing; an edit whose
\* edited file is not JSON reports that error and writes nothing.
C16_MalformedWritesNothing ==
    [][/\ (last'.cmd = "import" /\ last'.arg = "bad") =>
             /\ last'.msg = "Error: Invalid JSON file" /\ ~last'.raised
             /\ store' = store /\ vault' = vault
       /\ (last'.cmd = "import" /\ last'.arg = "part") =>
             /\ last'.msg = "Error: Missing required field" /\ ~last'.raised
             /\ store' = store /\ vault' = vault
       /\ Did("edit", "Error: Invalid JSON in edited file") =>
             /\ ~last'.raised
             /\ store' = store /\ vault' = vault
             /\ Len(editing') = Len(editing) - 1]_vars

\* an import of a file without "content" into a vault that holds an entry
C16_Witness ==
    /\ last.cmd = "import" /\ last.arg = "part" /\ last.msg = "Error: Missing required field"
    /\ store # <<>>

\* an edit of a stored entry whose file came back as text that is not JSON
C16_WitnessEdit ==
    /\ last.cmd = "edit" /\ last.msg = "Error: Invalid JSON in edited file"
    /\ store # <<>> /\ editing = <<>>

\* the commands of the CLI that open the vault
StoreCommands ==
    {"add", "list", "search", "show", "run", "edit", "delete", "tags", "export", "import"}

\* the run of the command got as far as needing the vault: an import does
\* once its file is read and has the required fields
NeedsStore(report) == report.cmd = "import" => report.arg \in {"f", "o"}

\* C17: no exception leaves a CLI command; and a command that needs the
\* vault, run where none is initialized, prints the No-vault-found message,
\* returns without raising and creates no vault.
C17_NoUncaughtFault ==
    [][/\ last'.cmd \in StoreCommands \cup {"init"} => ~last'.raised
       /\ (~vault /\ last'.cmd \in StoreCommands /\ NeedsStore(last')) =>
             /\ last'.msg = NoVault
             /\ ~vault'
             /\ store' = store]_vars

\* the part of C17 that the commands with an `except FileNotFoundError`
\* of their own meet: list, search, show, run, edit, delete, tags and export
\* print the message, do not raise and create no vault
C17_GuardedCommandsReportNoVault ==
    [][(~vault /\ last'.cmd \in StoreCommands \ {"add", "import"}) =>
          /\ last'.msg = NoVault /\ ~last'.raised
          /\ ~vault' /\ store' = store /\ calls' = <<>> /\ editing' = editing]_vars

\* the commands that look an entry up by an identifier
LookupCommands == {"show", "run", "edit", "delete", "export"}

\* the step is one in which a command looks its identifier up (for edit,
\* the step up to the start of the editor)
LooksUp ==
    /\ last'.cmd \in LookupCommands
    /\ last'.cmd = "edit" => Len(editing') >= Len(editing)

\* no document of db has the identifier as its id or as its name
MatchesNone(db, identifier) ==
    \A k \in DOMAIN db : db[k].id # identifier /\ db[k].name # identifier

\* the step changes nothing but the report: no write to the vault, no
\* execute_entry call, no exported file, no editor started
ReportsOnly ==
    /\ store' = store /\ vault' = vault
    /\ calls' = <<>>
    /\ exported' = exported
    /\ editing' = editing
    /\ clock' = clock /\ issued' = issued

\* C18: show, run, edit, delete and export given an identifier that matches
\* no entry report not-found, and a delete whose confirmation is answered
\* with anything but y / yes reports Cancelled; both leave the vault as it
\* was, execute nothing and raise nothing.  The reports occur in these
\* cases only.
C18_NotFoundAndCancelledAreInert ==
    [][/\ (vault /\ LooksUp) =>
             (last'.msg = "Error: Entry not found" <=> MatchesNone(store, last'.arg))
       /\ (last'.cmd = "delete" /\ last'.typed # <<>>) =>
             (last'.msg = "Cancelled" <=> last'.typed[1] \notin YesAnswers)
       /\ last'.msg \in {"Error: Entry not found", "Cancelled"} =>
             /\ last'.cmd \in LookupCommands
             /\ ~last'.raised
             /\ ReportsOnly]_vars

\* a delete of a stored entry that was answered with the empty line
C18_Witness ==
    /\ last.cmd = "delete" /\ last.msg = "Cancelled" /\ last.typed = <<<<>>>>
    /\ \E k \in DOMAIN store : store[k].name = last.arg

\* a run by an identifier that matches none of the stored entries
C18_WitnessNotFound ==
    /\ last.cmd = "run" /\ last.msg = "Error: Entry not found" /\ last.arg = "zz"
    /\ store # <<>> /\ calls = <<>>

---------------------------------------------------------------------------
(* Properties of the variable collection. *)

\* the names of a sequence of names, as a set
NameSet(names) == {names[i] : i \in 1..Len(names)}

\* the names a call asked the user for, in the order of the prompts
AskedNames(c) == [i \in 1..Len(VarInputs(c)) |-> VarInputs(c)[i].name]

\* C19: a call of execute_entry asks for the value of each placeholder name
\* of the content, and for each name once, however many times the name
\* occurs.
C19_EachNameAskedOnce ==
    \A k \in 1..Len(calls) :
        LET c     == calls[k]
            asked == AskedNames(c)
        IN  /\ NameSet(asked) = NameSet(extract_variables(c.entry.content))
            /\ \A i, j \in 1..Len(asked) : asked[i] = asked[j] => i = j

\* what the code does instead: one prompt per occurrence, in the order of
\* the occurrences, the last answer for a name being the one that is used
C19_EachOccurrenceAsked ==
    \A k \in 1..Len(calls) :
        AskedNames(calls[k]) = extract_variables(calls[k].entry.content)

\* C20: a call on an api entry that issues a request has asked for every
\* placeholder name of the url and of the content, and the url it sends is
\* the stored url with the typed values in place of the placeholders, so no
\* placeholder of the stored url is sent unresolved.
C20_UrlNamesResolved ==
    \A k \in 1..Len(calls) :
        LET c   == calls[k]
            url == c.entry.metadata.url
        IN  (c.entry.type = "api" /\ c.requests # <<>>) =>
                /\ NameSet(AskedNames(c)) =
                      NameSet(extract_variables(c.entry.content))
                          \cup NameSet(extract_variables(url))
                /\ c.requests[1].url = substitute_variables(url, TypedValues(c))

\* what the code does instead: the url is substituted only when the content
\* has placeholders, and only with the values asked for the content
C20_UrlUsesContentValues ==
    \A k \in 1..Len(calls) :
        LET c   == calls[k]
            url == c.entry.metadata.url
        IN  (c.entry.type = "api" /\ c.requests # <<>>) =>
                /\ AskedNames(c) = extract_variables(c.entry.content)
                /\ c.requests[1].url =
                      IF extract_variables(c.entry.content) # <<>>
                      THEN substitute_variables(url, TypedValues(c))
                      ELSE url

C27_LastWriterWins ==
    [][Did("edit", "Updated entry") =>
          LET read  == last'.read[1]
              wrote == last'.wrote[1]
          IN  /\ \E n \in 1..Len(editing) : editing[n].entry = read
              /\ DOMAIN read \subseteq DOMAIN wrote
              /\ DOMAIN store' = DOMAIN store
              /\ \A k \in DOMAIN store :
                    /\ store[k] \in last'.replaced <=> store'[k] # store[k]
                    /\ store[k] \in last'.replaced =>
                          /\ \A f \in DOMAIN wrote : store'[k][f] = wrote[f]
                          /\ \A f \in DOMAIN read \ {"updated_at"} :
                                wrote[f] = read[f] => store'[k][f] = read[f]]_vars

\* a lost update: the edit has written over a document that another
\* invocation had changed after the edit read it, and a field that
\* invocation changed has the value the edit had read again
C27_Witness ==
    /\ last.cmd = "edit" /\ last.msg = "Updated entry"
    /\ \E d \in last.replaced : \E k \in DOMAIN store :
          /\ d.id = last.read[1].id /\ store[k].id = d.id
          /\ d.updated_at > last.read[1].updated_at
          /\ d.tags # last.read[1].tags
          /\ store[k].tags = last.read[1].tags
          /\ store[k].updated_at > d.updated_at

\* C28: the ids of the documents of the vault are pairwise distinct,
\* whatever add, import, edit and delete commands ran (generate_id returning
\* a fresh value at each call).
C28_IdsDistinct ==
    \A j, k \in DOMAIN store : store[j].id = store[k].id => j = k

\* the part of C28 about add and import: the document they insert has an id
\* that no stored document has
C28_InsertedIdIsNew ==
    [][(Did("add", "Added") \/ Did("import", "Imported")) =>
          \A k \in DOMAIN store' \ DOMAIN store : ~HasId(store, store'[k].id)]_vars

\* the document ids of db whose documents the step removed or changed
Affected == {k \in DOMAIN store : k \notin DOMAIN store' \/ store'[k] # store[k]}

\* the document id of the entry get_entry returns for the identifier
FoundAt(db, identifier) ==
    IF Matching(db, "id", identifier) # {} THEN SetMin(Matching(db, "id", identifier))
    ELSE SetMin(Matching(db, "name", identifier))

\* C29: a delete removes exactly one document, the entry get_entry returns
\* for the identifier (the one named in the Delete? prompt), and the write
\* of an edit changes at most one document, the entry get_entry returns for
\* the identifier; all other documents stay as they were, also when several
\* entries have the identifier as their name.
C29_ExactlyOneAffected ==
    [][/\ Did("delete", "Deleted entry") =>
             /\ Affected = {FoundAt(store, last'.arg)}
             /\ <<store[FoundAt(store, last'.arg)]>> = get_entry(store, last'.arg)
             /\ FoundAt(store, last'.arg) \notin DOMAIN store'
       /\ Did("edit", "Updated entry") =>
             /\ Cardinality(Affected) <= 1
             /\ \A k \in Affected :
                   k = FoundAt(store, last'.arg) /\ k \in DOMAIN store']_vars

\* what the code does instead: db.remove and db.update reach every document
\* that has the identifier as its id or, when none has, as its name
C29_EveryMatchAffected ==
    [][(Did("delete", "Deleted entry") \/ Did("edit", "Updated entry")) =>
          Affected = {k \in DOMAIN store : Resolves(store, last'.arg, store[k])}]_vars

---------------------------------------------------------------------------
(* Properties of the substitution. *)

\* the text with each placeholder of a name of the dict replaced by the value
\* of the name, in one pass from left to right: a value that was put in is
\* not looked at again
RECURSIVE SinglePassFrom(_, _, _)
SinglePassFrom(text, variables, i) ==
    IF i > Len(text) THEN <<>>
    ELSE LET hits == {k \in 1..Len(variables) :
                        LET ph == Placeholder(variables[k].key)
                        IN  /\ i + Len(ph) - 1 <= Len(text)
                            /\ SubSeq(text, i, i + Len(ph) - 1) = ph}
         IN  IF hits # {}
             THEN LET k == CHOOSE h \in hits : TRUE
                  IN  variables[k].value
                      \o SinglePassFrom(text, variables, i + Len(Placeholder(variables[k].key)))
             ELSE <<text[i]>> \o SinglePassFrom(text, variables, i + 1)

\* some value of the dict contains an opening brace
HasBraceValue(variables) ==
    \E k \in 1..Len(variables) :
        \E j \in 1..Len(variables[k].value) : variables[k].value[j] = "{"

\* C21: substitute_variables does not substitute again in what it put in.
\* The command line a command entry runs is its content with each
\* placeholder replaced by the typed value, and a typed value that contains
\* a {{NAME}} sequence is in the command line as typed, also when NAME is
\* another name that was asked for.
C21_NoResubstitution ==
    \A k \in 1..Len(calls) :
        LET c == calls[k]
        IN  (c.entry.type = "command" /\ c.spawned # <<>>) =>
                c.spawned[1].cmd = SinglePassFrom(c.entry.content, TypedValues(c), 1)

\* what the code does instead: one str.replace per name, each over the whole
\* text the earlier ones left; the result is the one-pass result when no
\* value contains a brace
C21_PlainValuesSubstitutedOnce ==
    \A k \in 1..Len(calls) :
        LET c == calls[k]
        IN  (c.entry.type = "command" /\ c.spawned # <<>> /\ ~HasBraceValue(TypedValues(c))) =>
                c.spawned[1].cmd = SinglePassFrom(c.entry.content, TypedValues(c), 1)

\* text[i..j] is a well-formed placeholder: {{ , one or more word characters, }}
WellFormed(text, i, j) ==
    /\ i + 4 <= j /\ j <= Len(text)
    /\ text[i] = "{" /\ text[i + 1] = "{"
    /\ \A k \in (i + 2)..(j - 2) : text[k] \in WordChars
    /\ text[j - 1] = "}" /\ text[j] = "}"

\* the positions of the text at which a well-formed placeholder starts
PlaceholderStarts(text) ==
    {i \in 1..Len(text) : \E j \in 1..Len(text) : WellFormed(text, i, j)}

\* the names of the placeholders that start at the given positions, by
\* ascending position
RECURSIVE NamesAt(_, _)
NamesAt(text, starts) ==
    IF starts = {} THEN <<>>
    ELSE LET i == SetMin(starts)
             j == CHOOSE e \in 1..Len(text) : WellFormed(text, i, e)
         IN  <<SubSeq(text, i + 2, j - 2)>> \o NamesAt(text, starts \ {i})

\* C22: the names extract_variables returns, which are the names a call asks
\* for, are the names of all well-formed {{NAME}} placeholders of the
\* content, from left to right and with duplicates; nothing is asked for a
\* content without one, and {{ A }}, {A} and {{A} yield no name.
C22_ExtractsWellFormedNames ==
    \A k \in 1..Len(calls) :
        LET c == calls[k]
        IN  /\ AskedNames(c) = NamesAt(c.entry.content, PlaceholderStarts(c.entry.content))
            /\ PlaceholderStarts(c.entry.content) = {} => c.inputs \in {<<>>, ConfirmInputs(c)}
            /\ c.entry.content \in {<<"{", "{", " ", "A", " ", "}", "}">>, <<"{", "A", "}">>,
                                    <<"{", "{", "A", "}">>} => VarInputs(c) = <<>>

\* a call on {A}{{{B}}} asked for B alone
C22_Witness ==
    \E k \in 1..Len(calls) :
        /\ calls[k].entry.content = <<"{", "A", "}", "{", "{", "{", "B", "}", "}", "}">>
        /\ AskedNames(calls[k]) = <<<<"B">>>>

\* a call on {{ A }} asked for nothing
C22_WitnessMalformed ==
    \E k \in 1..Len(calls) :
        /\ calls[k].entry.content = <<"{", "{", " ", "A", " ", "}", "}">>
        /\ calls[k].inputs = <<>>

---------------------------------------------------------------------------
(* Properties of the request. *)

\* the call sent a request for an entry with content
SentWithContent(c) == c.entry.type = "api" /\ c.requests # <<>> /\ c.entry.content # <<>>

\* C23: the request of an api entry with non-empty content carries a body:
\* a JSON body when the content parses to a JSON object, and otherwise (it
\* parses to a scalar, or does not parse) a raw text body equal to the
\* content.
C23_ContentIsSentAsBody ==
    \A k \in 1..Len(calls) :
        LET c   == calls[k]
            req == c.requests[1]
        IN  SentWithContent(c) =>
                /\ req.json # <<>> \/ req.data # <<>>
                /\ IF json_loads(c.entry.content) = "dict"
                   THEN req.json = <<c.entry.content>> /\ req.data = <<>>
                   ELSE req.data = <<c.entry.content>> /\ req.json = <<>>

\* what the code does instead: a JSON body for an object, a raw text body
\* for content that does not parse, and no body for content that parses to
\* a number or null
C23_BodyByParsedKind ==
    \A k \in 1..Len(calls) :
        LET c      == calls[k]
            req    == c.requests[1]
            parsed == json_loads(c.entry.content)
        IN  SentWithContent(c) =>
                /\ req.json = (IF parsed = "dict" THEN <<c.entry.content>> ELSE <<>>)
                /\ req.data = (IF parsed = "error" THEN <<c.entry.content>> ELSE <<>>)

\* the call showed the message
Shows(c, msg) == \E i \in 1..Len(c.out) : c.out[i] = msg

\* C25: a call on an api entry whose request got a response shows the status
\* code and the body of the response, whatever the status code is; only a
\* request that failed in transport shows neither.
C25_ResponseAlwaysShown ==
    \A k \in 1..Len(calls) :
        LET c == calls[k]
        IN  /\ GotResponse(c) => (Shows(c, "Status") /\ Shows(c, "Response"))
            /\ (c.requests # <<>> /\ c.requests[1].outcome.kind = "error") =>
                  (~Shows(c, "Status") /\ ~Shows(c, "Response"))

\* what the code does instead: `if response:` is false for a 4xx or 5xx
\* response, so status and body are shown for the other codes only
C25_ShownUnlessErrorStatus ==
    \A k \in 1..Len(calls) :
        LET c == calls[k]
        IN  GotResponse(c) =>
                LET status == c.requests[1].outcome.status
                IN  /\ Shows(c, "Status") <=> ~(400 <= status /\ status <= 599)
                    /\ Shows(c, "Response") <=> Shows(c, "Status")

\* the call asked Execute? and was answered with something else than y / yes
Cancelled(c) ==
    /\ c.entry.type \in {"command", "api"} /\ c.confirm
    /\ ConfirmInputs(c) # <<>> /\ ConfirmInputs(c)[1].answer \notin YesAnswers

\* C30: a cancelled call leaves the record it was given as it was: every
\* field, metadata.url included, has the value it had before the call.
C30_CancelledLeavesRecord ==
    \A k \in 1..Len(calls) : Cancelled(calls[k]) => calls[k].after = calls[k].entry

\* what the code does instead: the url is substituted before Execute? is
\* asked, so a cancelled call leaves a command entry as it was and an api
\* entry with the url the request would have gone to
C30_CancelledKeepsAllButUrl ==
    \A k \in 1..Len(calls) :
        LET c == calls[k]
        IN  Cancelled(c) =>
                /\ c.after.type = c.entry.type /\ c.after.content = c.entry.content
                /\ c.after.metadata.method = c.entry.metadata.method
                /\ c.entry.type = "command" => c.after = c.entry
                /\ c.after.metadata.url =
                      IF c.entry.type = "api" /\ extract_variables(c.entry.content) # <<>>
                      THEN substitute_variables(c.entry.metadata.url, TypedValues(c))
                      ELSE c.entry.metadata.url

---------------------------------------------------------------------------
(* Properties of the handles of the vault file. *)

\* what a command did with handles, without the exceptions in between
HandleEvents(report) == SelectSeq(report.handles, LAMBDA e : e \in {"open", "close"})

\* how many times the command opened the vault file
Opens(report) == Len(SelectSeq(report.handles, LAMBDA e : e = "open"))

\* every handle the command opened was closed before it opened the next one
\* and before it returned
Released(report) ==
    LET events == HandleEvents(report)
    IN  /\ Len(events) % 2 = 0
        /\ \A i \in 1..Len(events) : events[i] = (IF i % 2 = 1 THEN "open" ELSE "close")

\* C24 as stated: a CLI command opens the vault file once, and no handle is
\* open when it returns, also when it raises.
C24_OpenedOncePerInvocation ==
    last.cmd # "none" => (Opens(last) <= 1 /\ Released(last))

\* C24 amended: a CLI command opens the vault file once for every function
\* of db.py it calls -- up to twice for the lookup of an identifier (by id,
\* then by name) and once more for the write of an edit or a delete -- and
\* closes each handle before it opens the next; no handle is open when the
\* command returns or while the editor of an edit runs, also when an
\* exception leaves the function or the command; a command that finds no
\* vault opens nothing.
C24_HandlesReleased ==
    /\ Released(last)
    /\ last.cmd \in {"init", "add", "import", "list", "search", "tags"} => Opens(last) <= 1
    /\ last.cmd \in {"show", "run", "export", "edit"} => Opens(last) <= 2
    /\ last.cmd = "delete" => Opens(last) <= 3
    /\ (last.cmd = "delete" /\ last.msg = "Deleted entry") => Opens(last) >= 2
    /\ (last.cmd \in StoreCommands /\ last.handles = <<>>) =>
          \/ last.msg = NoVault
          \/ last.cmd \in {"add", "import", "edit"}
    /\ ~vault => last.handles = <<>>

\* a delete by name: one handle for the lookup by id, one for the lookup by
\* name and one for the removal
C24_Witness ==
    /\ last.cmd = "delete" /\ last.msg = "Deleted entry"
    /\ Opens(last) = 3 /\ Released(last)

\* a search that raised inside search_entries
C24_WitnessRaised ==
    /\ last.cmd = "search" /\ last.raised
    /\ last.handles = <<"open", "raise", "close">>

====
